---- MODULE Spec2Model ----
(***************************************************************************)
(* Model of app.py, the Indian Options Dashboard: the Market Scanner       *)
(* (get_scan_data) and the Deep Dive render (technical classifier,         *)
(* suggestion engine, option chain with greeks).                           *)
(*                                                                         *)
(* Numbers are fixed point.  Implied volatilities and percentages are in   *)
(* units of 1/Scale, prices in paise, volumes in shares.  A rendered       *)
(* string built by an f-string is a record of its format and the value the *)
(* format leaves after rounding.  A status string is the sequence of its   *)
(* words, so that str.startswith is a prefix test.                         *)
(***************************************************************************)
EXTENDS Integers, Sequences, FiniteSets, TLC

VARIABLES
    \* ---- Market Scanner (get_scan_data) ----
    ticker_list,      \* parsed sidebar input
    scan_pc,          \* "loop" | "done"
    i,                \* number of tickers scanned so far
    stock,            \* what the provider answered for the ticker of this iteration
    scan_results,     \* rows appended so far
    \* ---- Deep Dive ----
    pc,               \* position of the render
    deep_dive_ticker,
    current_price,    \* <<>> is None, <<p>> a price in paise
    hist_len,         \* bars returned by history()
    stock_data,       \* [rows, ta]: rows left, required indicator columns present
    last_row,
    band_status, rsi_status, macd_status,
    exp_dates,
    chain,            \* [calls_empty, has_iv, impliedVolatility] of the ATM call
    current_atm_iv,
    suggestion, reasoning,
    call_chain, put_chain,
    ui,               \* the st.* elements rendered so far, in order
    fetches,          \* provider calls made so far, in order
    handler,          \* "" | "options" | "outer": the except clause that ran
    e                 \* the exception that clause caught, "" before

scan_vars == <<ticker_list, scan_pc, i, stock, scan_results>>
deep_vars == <<pc, deep_dive_ticker, current_price, hist_len, stock_data, last_row,
               band_status, rsi_status, macd_status, exp_dates, chain,
               current_atm_iv, suggestion, reasoning, call_chain, put_chain,
               ui, fetches, handler, e>>
vars == <<scan_vars, deep_vars>>

----------------------------------------------------------------------------
(* Bounds *)
MaxBars == 21        \* longest history the provider returns
MaxTickers == 2      \* longest ticker list

(* Program constants *)
Scale == 100 * 100   \* fixed-point unit of volatilities and percentages
MinBars == 20
RsiHigh == 70
RsiLow == 30
IvHigh == 60
IvLow == 35

----------------------------------------------------------------------------
(* Rendering *)

\* one st.* call: the widget, which message it is, and the interpolated cause
St(w, msg) == [w |-> w, msg |-> msg, cause |-> ""]
StCause(w, msg, err) == [w |-> w, msg |-> msg, cause |-> err]

\* a handler that swallows the exception without a message
OptionsExceptSilent(u, err) == u

\* the except clause of the options stage, lines 245-248
OptionsExcept(u, err) ==
    u \o << St("error", "options-fetch"),
            St("error", "options-common"),
            StCause("error", "options-exact", err) >>

\* the except clause around the whole deep dive
OuterExcept(u, err) ==
    u \o << StCause("error", "critical", err),
            St("error", "critical-hint") >>

\* lines 70-71: the two titles rendered before the deep dive starts
DeepTitles == << St("title", "---"), St("title", "deep-dive") >>

----------------------------------------------------------------------------
(* Formatting *)

\* f"{x:.1f}" of a fixed-point x: the number of tenths, rounded half to even
Fmt1(x) ==
    LET unit == Scale \div 10
        q == x \div unit
        r == x % unit
    IN  IF 2 * r > unit \/ (2 * r = unit /\ q % 2 = 1) THEN q + 1 ELSE q

\* str.startswith on word sequences
StartsWith(s, prefix) ==
    /\ Len(s) >= Len(prefix)
    /\ SubSeq(s, 1, Len(prefix)) = prefix

----------------------------------------------------------------------------
(* Module 2: Technical Status Summary, lines 150-159 *)

BandStatus(row) ==
    IF row.Close > row.BBU THEN <<"At", "Upper", "Band", "(Bearish)">>
    ELSE IF row.Close < row.BBL THEN <<"At", "Lower", "Band", "(Bullish)">>
    ELSE <<"In", "Channel", "(Neutral)">>

\* the RSI status with inclusive thresholds
RsiStatusInclusive(row) ==
    IF row.RSI_14 >= RsiHigh THEN <<"Overbought", "(Bearish)">>
    ELSE IF row.RSI_14 <= RsiLow THEN <<"Oversold", "(Bullish)">>
    ELSE <<"Neutral">>

RsiStatus(row) ==
    IF row.RSI_14 > RsiHigh THEN <<"Overbought", "(Bearish)">>
    ELSE IF row.RSI_14 < RsiLow THEN <<"Oversold", "(Bullish)">>
    ELSE <<"Neutral">>

\* a MACD status with a neutral zone at 0
MacdStatusNeutralZero(row) ==
    IF row.MACDh > 0 THEN <<"Bullish", "Crossover", "(Bullish)">>
    ELSE IF row.MACDh < 0 THEN <<"Bearish", "Crossover", "(Bearish)">>
    ELSE <<"Neutral">>

MacdStatus(row) ==
    IF row.MACDh > 0 THEN <<"Bullish", "Crossover", "(Bullish)">>
    ELSE <<"Bearish", "Crossover", "(Bearish)">>

----------------------------------------------------------------------------
(* Module 4: Suggestion Logic, lines 180-213.  The block is inline code, so *)
(* env carries every local in scope where it runs.  The result is the pair   *)
(* of the label and the rationale; a rationale is its template and the     *)
(* values interpolated into it.                                            *)

SellPut       == "Strategy: Sell Put Option (PE)"
SellCall      == "Strategy: Sell Call Option (CE)"
ShortStrangle == "Strategy: Short Strangle (Sell OTM CE & PE)"
BuyCall       == "Strategy: Buy Call Option (CE)"
BuyPut        == "Strategy: Buy Put Option (PE)"
LongStraddle  == "Strategy: Long Straddle (Buy ATM CE & PE)"
BullCallSpread == "Strategy: Bull Call Spread (Buy CE, Sell higher CE)"
BearPutSpread == "Strategy: Bear Put Spread (Buy PE, Sell lower PE)"
NoClearSignal == "Strategy: No Clear Signal"

Why(text, env) == [text |-> text, values |-> <<Fmt1(env.current_atm_iv)>>]
Plain(text)  == [text |-> text, values |-> <<>>]

\* the high-IV branch with the two RSI cases exchanged
HighIvBranchSwapped(env) ==
    IF StartsWith(env.rsi_status, <<"Oversold">>) THEN
        <<SellCall, Why("IV is high ({iv}%), so premium is rich. The stock is Overbought, suggesting a pullback. Selling a CE collects this premium (Bearish).", env)>>
    ELSE IF StartsWith(env.rsi_status, <<"Overbought">>) THEN
        <<SellPut, Why("IV is high ({iv}%), so premium is rich. The stock is Oversold, suggesting a bounce. Selling a PE collects this premium (Bullish).", env)>>
    ELSE
        <<ShortStrangle, Why("IV is very high ({iv}%) and technicals are neutral. This suggests a 'volatility crush' is possible.", env)>>

\* lines 183-191
HighIvBranch(env) ==
    IF StartsWith(env.rsi_status, <<"Oversold">>) THEN
        <<SellPut, Why("IV is high ({iv}%), so premium is rich. The stock is Oversold, suggesting a bounce. Selling a PE collects this premium (Bullish).", env)>>
    ELSE IF StartsWith(env.rsi_status, <<"Overbought">>) THEN
        <<SellCall, Why("IV is high ({iv}%), so premium is rich. The stock is Overbought, suggesting a pullback. Selling a CE collects this premium (Bearish).", env)>>
    ELSE
        <<ShortStrangle, Why("IV is very high ({iv}%) and technicals are neutral. This suggests a 'volatility crush' is possible.", env)>>

\* a low-IV branch that also looks at the band status
LowIvBranchBandAware(env) ==
    IF StartsWith(env.macd_status, <<"Bullish">>) /\ ~StartsWith(env.band_status, <<"At", "Upper">>) THEN
        <<BuyCall, Why("IV is low ({iv}%), making options cheap. MACD shows Bullish Momentum.", env)>>
    ELSE IF StartsWith(env.macd_status, <<"Bearish">>) \/ StartsWith(env.band_status, <<"At", "Upper">>) THEN
        <<BuyPut, Why("IV is low ({iv}%), making options cheap. MACD shows Bearish Momentum.", env)>>
    ELSE
        <<LongStraddle, Why("IV is low ({iv}%), making options cheap. This is ideal for betting on a large move.", env)>>

\* lines 194-202
LowIvBranch(env) ==
    IF StartsWith(env.macd_status, <<"Bullish">>) THEN
        <<BuyCall, Why("IV is low ({iv}%), making options cheap. MACD shows Bullish Momentum.", env)>>
    ELSE IF StartsWith(env.macd_status, <<"Bearish">>) THEN
        <<BuyPut, Why("IV is low ({iv}%), making options cheap. MACD shows Bearish Momentum.", env)>>
    ELSE
        <<LongStraddle, Why("IV is low ({iv}%), making options cheap. This is ideal for betting on a large move.", env)>>

\* lines 205-213
ModerateIvBranch(env) ==
    IF StartsWith(env.macd_status, <<"Bullish">>) /\ StartsWith(env.rsi_status, <<"Oversold">>) THEN
        <<BullCallSpread, Plain("Technicals are Bullish. A spread defines your risk.")>>
    ELSE IF StartsWith(env.macd_status, <<"Bearish">>) /\ StartsWith(env.rsi_status, <<"Overbought">>) THEN
        <<BearPutSpread, Plain("Technicals are Bearish. A spread defines your risk.")>>
    ELSE
        <<NoClearSignal, Plain("Technicals are mixed and IV is moderate. Wait for a clearer setup.")>>

\* the branch selection with inclusive thresholds
SuggestionLogicInclusive(env) ==
    IF env.current_atm_iv >= IvHigh * Scale THEN HighIvBranch(env)
    ELSE IF env.current_atm_iv <= IvLow * Scale THEN LowIvBranch(env)
    ELSE ModerateIvBranch(env)

\* lines 182, 193, 204
SuggestionLogic(env) ==
    IF env.current_atm_iv > IvHigh * Scale THEN HighIvBranch(env)
    ELSE IF env.current_atm_iv < IvLow * Scale THEN LowIvBranch(env)
    ELSE ModerateIvBranch(env)

----------------------------------------------------------------------------
(* Deep Dive: what the providers may answer *)

\* dict.get on a key that may be absent: <<>> is absent, <<v>> is present
Get(field, default) == IF field = <<>> THEN default ELSE field[1]

LastPrice == 2500 * 100     \* Rs 2500.00, in paise
PrevPrice == 2499 * 100
InfoResponses ==
    [ raises : BOOLEAN,
      currentPrice : {<<>>, <<0>>, <<LastPrice>>},
      regularMarketPrice : {<<>>, <<0>>, <<PrevPrice>>} ]

\* the last bar after the indicators are appended
LastRows ==
    [ Close : 1..5, BBU : {4}, BBL : {2},
      RSI_14 : {RsiLow - 1, RsiLow, RsiLow + 1, RsiHigh - 1, RsiHigh, RsiHigh + 1},
      MACDh : {-1, 0, 1} ]
NoRow == [Close |-> 0, BBU |-> 0, BBL |-> 0, RSI_14 |-> 0, MACDh |-> 0]

\* impliedVolatility of a contract, in units of 1/Scale
ImpliedVols == {0, 2000, 3499, 3500, 4500, 5000, 6000, 6001, 6005, 7500}

ExpiryLists == { <<>>, <<"2026-11-26">>, <<"2026-11-26", "2026-12-31">> }

\* option_chain(exp_dates[0]).calls, seen through the row nearest the money
Chains ==
    { [calls_empty |-> TRUE, has_iv |-> FALSE, impliedVolatility |-> 0] }
    \cup { [calls_empty |-> FALSE, has_iv |-> FALSE, impliedVolatility |-> 0] }
    \cup { [calls_empty |-> FALSE, has_iv |-> TRUE, impliedVolatility |-> v] : v \in ImpliedVols }
NoChain == [calls_empty |-> TRUE, has_iv |-> FALSE, impliedVolatility |-> 0]

\* a frame returned by get_chain_greeks_date
GreekFrames == [ empty : BOOLEAN, cols : BOOLEAN ]
NoFrame == [empty |-> TRUE, cols |-> FALSE]

----------------------------------------------------------------------------
(* Deep Dive, lines 70-252 *)

DeepInit ==
    /\ pc = "start"
    /\ deep_dive_ticker \in {"", "RELIANCE.NS"}
    /\ current_price = <<>>
    /\ hist_len = 0
    /\ stock_data = [rows |-> 0, ta |-> FALSE]
    /\ last_row = NoRow
    /\ band_status = <<>> /\ rsi_status = <<>> /\ macd_status = <<>>
    /\ exp_dates = <<>>
    /\ chain = NoChain
    /\ current_atm_iv = 0
    /\ suggestion = "" /\ reasoning = Plain("")
    /\ call_chain = NoFrame /\ put_chain = NoFrame
    /\ ui = DeepTitles
    /\ fetches = <<>>
    /\ handler = ""
    /\ e = ""

\* lines 73-74
NoTicker ==
    /\ pc = "start"
    /\ deep_dive_ticker = ""
    /\ ui' = Append(ui, St("info", "enter-ticker"))
    /\ pc' = "done"
    /\ UNCHANGED <<deep_dive_ticker, current_price, hist_len, stock_data, last_row,
                   band_status, rsi_status, macd_status, exp_dates, chain,
                   current_atm_iv, suggestion, reasoning, call_chain, put_chain,
                   fetches, handler, e>>
    /\ UNCHANGED scan_vars

\* a price check that forgets the price of 0
PriceInvalidNoneOnly(p) == p = <<>>

\* line 82
PriceInvalid(p) == p = <<>> \/ p[1] = 0

\* lines 78-85
FetchInfo ==
    /\ pc = "start"
    /\ deep_dive_ticker # ""
    /\ fetches' = Append(fetches, "info")
    /\ \E r \in InfoResponses :
        IF r.raises THEN
            /\ ui' = OuterExcept(ui, "info")
            /\ handler' = "outer"
            /\ e' = "info"
            /\ pc' = "done"
            /\ UNCHANGED current_price
        ELSE
            LET p == IF r.currentPrice # <<>> THEN r.currentPrice
                     ELSE r.regularMarketPrice
            IN  /\ current_price' = p
                /\ handler' = handler
                /\ e' = e
                /\ IF PriceInvalid(p)
                   THEN /\ ui' = Append(ui, St("error", "no-current-price"))
                        /\ pc' = "done"
                   ELSE /\ ui' = Append(ui, St("header", "analysis-for"))
                        /\ pc' = "history"
    /\ UNCHANGED <<deep_dive_ticker, hist_len, stock_data, last_row,
                   band_status, rsi_status, macd_status, exp_dates, chain,
                   current_atm_iv, suggestion, reasoning, call_chain, put_chain>>
    /\ UNCHANGED scan_vars

\* lines 87-94: history(), the empty check, dropna, the second empty check
FetchHistory ==
    /\ pc = "history"
    /\ fetches' = Append(fetches, "history")
    /\ \/ /\ ui' = OuterExcept(ui, "history")
          /\ handler' = "outer"
          /\ e' = "history"
          /\ pc' = "done"
          /\ UNCHANGED <<hist_len, stock_data>>
       \/ \E n \in 0..MaxBars, nan \in 0..MaxBars :
            /\ nan <= n
            /\ hist_len' = n
            /\ handler' = handler
            /\ e' = e
            /\ IF n = 0 THEN
                  /\ ui' = Append(ui, St("error", "no-historical-data"))
                  /\ stock_data' = stock_data
                  /\ pc' = "done"
               ELSE IF n - nan = 0 THEN
                  /\ ui' = Append(ui, St("error", "no-valid-data-after-cleaning"))
                  /\ stock_data' = [stock_data EXCEPT !.rows = 0]
                  /\ pc' = "done"
               ELSE
                  /\ ui' = Append(ui, St("subheader", "module-2"))
                  /\ stock_data' = [stock_data EXCEPT !.rows = n - nan]
                  /\ pc' = "indicators"
    /\ UNCHANGED <<deep_dive_ticker, current_price, last_row,
                   band_status, rsi_status, macd_status, exp_dates, chain,
                   current_atm_iv, suggestion, reasoning, call_chain, put_chain>>
    /\ UNCHANGED scan_vars

\* lines 115-163: the last row, the three charts, the status summary
TechnicalSection(u) ==
    u \o << St("plotly_chart", "price-bands"),
            St("plotly_chart", "rsi"),
            St("plotly_chart", "macd"),
            St("subheader", "technical-status-summary"),
            St("metric", "price-vs-bands"),
            St("metric", "rsi-14"),
            St("metric", "macd-status"),
            St("title", "module-4") >>

\* lines 100-167.  The indicator library is a black box: it appends the
\* required columns or not, never with fewer than MinBars rows (line 106),
\* and its warm-up rows hold NaN, which the dropna of line 103 removes; the
\* Bollinger warm-up alone is MinBars - 1 rows.
ComputeIndicators ==
    /\ pc = "indicators"
    /\ \E created \in BOOLEAN, kept \in 0..MaxBars :
        /\ created => stock_data.rows >= MinBars
        /\ kept <= IF created THEN stock_data.rows - (MinBars - 1) ELSE stock_data.rows
        /\ stock_data' = [rows |-> kept, ta |-> created]
        /\ IF ~created THEN
              \* lines 108-110
              /\ ui' = ui \o << St("error", "no-indicators"),
                                St("warning", "less-than-20-days") >>
              /\ handler' = handler
              /\ e' = e
              /\ pc' = "done"
              /\ UNCHANGED <<last_row, band_status, rsi_status, macd_status>>
           ELSE IF kept = 0 THEN
              \* line 115: iloc[-1] of an empty frame raises IndexError
              /\ ui' = OuterExcept(ui, "IndexError")
              /\ handler' = "outer"
              /\ e' = "IndexError"
              /\ pc' = "done"
              /\ UNCHANGED <<last_row, band_status, rsi_status, macd_status>>
           ELSE
              \E row \in LastRows :
                /\ last_row' = row
                /\ band_status' = BandStatus(row)
                /\ rsi_status' = RsiStatus(row)
                /\ macd_status' = MacdStatus(row)
                /\ ui' = TechnicalSection(ui)
                /\ handler' = handler
                /\ e' = e
                /\ pc' = "expiries"
    /\ UNCHANGED <<deep_dive_ticker, current_price, hist_len, exp_dates, chain,
                   current_atm_iv, suggestion, reasoning, call_chain, put_chain,
                   fetches>>
    /\ UNCHANGED scan_vars

\* lines 169-172
FetchExpiries ==
    /\ pc = "expiries"
    /\ fetches' = Append(fetches, "options")
    /\ \/ /\ ui' = OptionsExcept(ui, "options")
          /\ handler' = "options"
          /\ e' = "options"
          /\ pc' = "done"
          /\ UNCHANGED exp_dates
       \/ \E dates \in ExpiryLists :
            /\ exp_dates' = dates
            /\ handler' = handler
            /\ e' = e
            /\ IF dates = <<>>
               THEN /\ ui' = Append(ui, St("error", "no-expiration-dates"))
                    /\ pc' = "done"
               ELSE /\ ui' = ui
                    /\ pc' = "chain"
    /\ UNCHANGED <<deep_dive_ticker, current_price, hist_len, stock_data, last_row,
                   band_status, rsi_status, macd_status, chain,
                   current_atm_iv, suggestion, reasoning, call_chain, put_chain>>
    /\ UNCHANGED scan_vars

\* the locals in scope where the Suggestion Logic runs
Env(iv) ==
    [ current_atm_iv |-> iv, rsi_status |-> rsi_status, macd_status |-> macd_status,
      band_status |-> band_status, current_price |-> current_price ]

\* lines 174-217: the nearest-expiry chain, the ATM implied volatility,
\* the suggestion and its rationale
FetchChainAndSuggest ==
    /\ pc = "chain"
    /\ fetches' = Append(fetches, "option_chain")
    /\ \/ /\ ui' = OptionsExcept(ui, "option_chain")
          /\ handler' = "options"
          /\ e' = "option_chain"
          /\ pc' = "done"
          /\ UNCHANGED <<chain, current_atm_iv, suggestion, reasoning>>
       \/ \E c \in Chains :
            /\ chain' = c
            /\ IF c.calls_empty THEN
                  \* line 175: argsort()[0] of an empty series raises
                  /\ ui' = OptionsExcept(ui, "IndexError")
                  /\ handler' = "options"
                  /\ e' = "IndexError"
                  /\ pc' = "done"
                  /\ UNCHANGED <<current_atm_iv, suggestion, reasoning>>
               ELSE
                  LET iv == (IF c.has_iv THEN c.impliedVolatility ELSE 0) * 100
                      s == SuggestionLogic(Env(iv))
                  IN  /\ current_atm_iv' = iv
                      /\ suggestion' = s[1]
                      /\ reasoning' = s[2]
                      /\ ui' = ui \o << St("metric", "atm-iv"),
                                        St("subheader", "suggestion"),
                                        St("info", "reasoning"),
                                        St("warning", "disclaimer"),
                                        St("title", "module-3") >>
                      /\ handler' = handler
                      /\ e' = e
                      /\ pc' = "greeks"
    /\ UNCHANGED <<deep_dive_ticker, current_price, hist_len, stock_data, last_row,
                   band_status, rsi_status, macd_status, exp_dates,
                   call_chain, put_chain>>
    /\ UNCHANGED scan_vars

\* lines 231-243: formatting of the two frames and the two tables; a frame
\* without the display columns raises KeyError where it is first indexed
RenderChains(u, calls, puts) ==
    IF (~calls.empty /\ ~calls.cols) \/ (~puts.empty /\ ~puts.cols) THEN
        [ui |-> u, raised |-> TRUE]
    ELSE IF ~calls.cols THEN
        [ui |-> Append(u, St("subheader", "call-chain")), raised |-> TRUE]
    ELSE IF ~puts.cols THEN
        [ui |-> u \o << St("subheader", "call-chain"), St("dataframe", "call-chain"),
                        St("subheader", "put-chain") >>,
         raised |-> TRUE]
    ELSE
        [ui |-> u \o << St("subheader", "call-chain"), St("dataframe", "call-chain"),
                        St("subheader", "put-chain"), St("dataframe", "put-chain") >>,
         raised |-> FALSE]

\* lines 221-248: the expiry selectbox, get_greeks, the two chain tables
FetchGreeks ==
    /\ pc = "greeks"
    /\ LET u == Append(ui, St("selectbox", "expiration-date")) IN
       \/ /\ fetches' = Append(fetches, "greeks-calls")
          /\ ui' = OptionsExcept(u, "greeks-calls")
          /\ handler' = "options"
          /\ e' = "greeks-calls"
          /\ UNCHANGED <<call_chain, put_chain>>
       \/ /\ fetches' = fetches \o <<"greeks-calls", "greeks-puts">>
          /\ ui' = OptionsExcept(u, "greeks-puts")
          /\ handler' = "options"
          /\ e' = "greeks-puts"
          /\ UNCHANGED <<call_chain, put_chain>>
       \/ \E calls \in GreekFrames, puts \in GreekFrames :
            LET r == RenderChains(u, calls, puts) IN
            /\ fetches' = fetches \o <<"greeks-calls", "greeks-puts">>
            /\ call_chain' = calls
            /\ put_chain' = puts
            /\ IF r.raised
               THEN /\ ui' = OptionsExcept(r.ui, "KeyError")
                    /\ handler' = "options"
                    /\ e' = "KeyError"
               ELSE /\ ui' = r.ui
                    /\ handler' = handler
                    /\ e' = e
    /\ pc' = "done"
    /\ UNCHANGED <<deep_dive_ticker, current_price, hist_len, stock_data, last_row,
                   band_status, rsi_status, macd_status, exp_dates, chain,
                   current_atm_iv, suggestion, reasoning>>
    /\ UNCHANGED scan_vars

DeepNext ==
    \/ NoTicker
    \/ FetchInfo
    \/ FetchHistory
    \/ ComputeIndicators
    \/ FetchExpiries
    \/ FetchChainAndSuggest
    \/ FetchGreeks

----------------------------------------------------------------------------
(* Module 1: Market Scanner, get_scan_data, lines 30-66 *)

Tickers == {"RELIANCE.NS", "TCS.NS"}

\* a rendered cell: the format that produced it and the rounded value
NA == [kind |-> "N/A", v |-> 0]
Rupees2f(p) == [kind |-> "rupees-2f", v |-> p]
Percent1f(x) == [kind |-> "percent-1f", v |-> Fmt1(x)]

\* f"{(a / b):.2f}x": hundredths of the quotient, rounded half to even
Ratio2f(a, b) ==
    LET q == (a * 100) \div b
        r == (a * 100) % b
    IN  [kind |-> "ratio-2f",
         v |-> IF 2 * r > b \/ (2 * r = b /\ q % 2 = 1) THEN q + 1 ELSE q]

\* what yfinance answers for one ticker: where it raises ("" is nowhere),
\* the keys of info, the expiry list and the nearest-expiry calls
ScanOptionCases ==
    { [raises |-> "options", expiries |-> FALSE, calls_empty |-> TRUE, impliedVolatility |-> <<>>],
      [raises |-> "", expiries |-> FALSE, calls_empty |-> TRUE, impliedVolatility |-> <<>>],
      [raises |-> "option_chain", expiries |-> TRUE, calls_empty |-> TRUE, impliedVolatility |-> <<>>],
      [raises |-> "", expiries |-> TRUE, calls_empty |-> TRUE, impliedVolatility |-> <<>>],
      [raises |-> "", expiries |-> TRUE, calls_empty |-> FALSE, impliedVolatility |-> <<>>],
      [raises |-> "", expiries |-> TRUE, calls_empty |-> FALSE, impliedVolatility |-> <<2512>>] }

NoStock ==
    [ raises |-> "info", currentPrice |-> <<>>, regularMarketPrice |-> <<>>,
      averageVolume |-> <<>>, volume |-> <<>>,
      expiries |-> FALSE, calls_empty |-> TRUE, impliedVolatility |-> <<>> ]

ScanResponses ==
    {NoStock} \cup
    { [ raises |-> o.raises, currentPrice |-> cp, regularMarketPrice |-> rmp,
        averageVolume |-> av, volume |-> vol,
        expiries |-> o.expiries, calls_empty |-> o.calls_empty,
        impliedVolatility |-> o.impliedVolatility ] :
        o \in ScanOptionCases,
        cp \in {<<>>, <<LastPrice>>}, rmp \in {<<>>, <<PrevPrice>>},
        av \in {<<>>, <<0>>, <<2>>}, vol \in {<<>>, <<3>>} }

\* an error row that keeps the defaults of the price and the volatility
ErrorRowKeepsDefaults(ticker) ==
    [Ticker |-> ticker, Price |-> Rupees2f(0), ATM_IV |-> Percent1f(0), Vol_Ratio |-> NA]

\* line 57
ErrorRow(ticker) ==
    [Ticker |-> ticker, Price |-> NA, ATM_IV |-> NA, Vol_Ratio |-> NA]

\* lines 36-57: the body of the loop for one ticker
ScanRow(ticker, r) ==
    IF r.raises # "" THEN ErrorRow(ticker)
    ELSE
        LET price == Get(r.currentPrice, Get(r.regularMarketPrice, 0))
            avg_volume == Get(r.averageVolume, 1)
            current_volume == Get(r.volume, 0)
            volume_ratio == IF avg_volume > 0 THEN Ratio2f(current_volume, avg_volume) ELSE NA
            atm_iv == IF r.expiries /\ price > 0 /\ ~r.calls_empty
                      THEN Get(r.impliedVolatility, 0) * 100
                      ELSE 0
        IN  [Ticker |-> ticker, Price |-> Rupees2f(price),
             ATM_IV |-> Percent1f(atm_iv), Vol_Ratio |-> volume_ratio]

ScanInit ==
    /\ ticker_list \in UNION { [1..n -> Tickers] : n \in 0..MaxTickers }
    /\ scan_pc = "loop"
    /\ i = 0
    /\ stock = NoStock
    /\ scan_results = <<>>

\* line 63: an empty ticker list runs no scan and shows no table
NoTickers ==
    /\ scan_pc = "loop"
    /\ ticker_list = <<>>
    /\ scan_pc' = "skipped"
    /\ UNCHANGED <<ticker_list, i, stock, scan_results>>
    /\ UNCHANGED deep_vars

\* lines 35-59: one iteration of the loop
ScanTicker ==
    /\ scan_pc = "loop"
    /\ i < Len(ticker_list)
    /\ \E r \in ScanResponses :
        /\ stock' = r
        /\ scan_results' = Append(scan_results, ScanRow(ticker_list[i + 1], r))
    /\ i' = i + 1
    /\ UNCHANGED <<ticker_list, scan_pc>>
    /\ UNCHANGED deep_vars

\* lines 60-66: the loop is over, the table is shown
ScanFinish ==
    /\ scan_pc = "loop"
    /\ ticker_list # <<>>
    /\ i = Len(ticker_list)
    /\ scan_pc' = "shown"
    /\ UNCHANGED <<ticker_list, i, stock, scan_results>>
    /\ UNCHANGED deep_vars

ScanNext ==
    \/ NoTickers
    \/ ScanTicker
    \/ ScanFinish

----------------------------------------------------------------------------
(* Specifications *)

\* the deep dive of a render, the scanner left aside (empty ticker list)
Init ==
    /\ DeepInit
    /\ ticker_list = <<>> /\ scan_pc = "skipped" /\ i = 0
    /\ stock = NoStock /\ scan_results = <<>>

Next == DeepNext

Spec == Init /\ [][Next]_vars

\* the scanner of a render, before the deep dive starts
ScanSpecInit ==
    /\ ScanInit
    /\ DeepInit
    /\ deep_dive_ticker = "RELIANCE.NS"

ScanSpec == ScanSpecInit /\ [][ScanNext]_vars

\* the loop of get_scan_data is sequential and every iteration returns
ScanLive == ScanSpec /\ WF_vars(ScanNext)

----------------------------------------------------------------------------
(* Properties.  The vocabulary of the specification: *)

Overbought == <<"Overbought", "(Bearish)">>
Oversold   == <<"Oversold", "(Bullish)">>
Neutral    == <<"Neutral">>
Bullish    == <<"Bullish", "Crossover", "(Bullish)">>
Bearish    == <<"Bearish", "Crossover", "(Bearish)">>
AboveUpper == <<"At", "Upper", "Band", "(Bearish)">>
BelowLower == <<"At", "Lower", "Band", "(Bullish)">>
InChannel  == <<"In", "Channel", "(Neutral)">>

NineLabels == {SellPut, SellCall, ShortStrangle, BuyCall, BuyPut, LongStraddle,
               BullCallSpread, BearPutSpread, NoClearSignal}

Range(f) == { f[k] : k \in DOMAIN f }
Rendered(w) == { x.msg : x \in { y \in Range(ui) : y.w = w } }

\* the Technical Classifier has run
Classified == rsi_status # <<>>
\* the Suggestion Engine has run
Suggested == suggestion # ""

\* C1: for every ATM implied volatility above 60 the label follows the RSI
\* status alone: Sell Put when Oversold, Sell Call when Overbought, Short
\* Strangle when Neutral, whatever the MACD status is.
C1_HighIvFollowsRsi ==
    (Suggested /\ current_atm_iv > 60 * Scale) =>
        /\ macd_status \in {Bullish, Bearish}
        /\ rsi_status = Oversold => suggestion = SellPut
        /\ rsi_status = Overbought => suggestion = SellCall
        /\ rsi_status = Neutral => suggestion = ShortStrangle
        /\ rsi_status \in {Oversold, Overbought, Neutral}

\* scenario A: IV 75, Oversold, Bearish gives Sell Put
C1_Witness ==
    /\ current_atm_iv = 75 * Scale
    /\ rsi_status = Oversold
    /\ macd_status = Bearish
    /\ suggestion = SellPut

\* C2: for every ATM implied volatility below 35 the label is Buy Call when
\* the MACD status is BullishCrossover and Buy Put when it is
\* BearishCrossover, whatever the RSI status is; the classifier yields only
\* those two MACD statuses, so Long Straddle is never produced.
C2_LowIvFollowsMacd ==
    /\ suggestion # LongStraddle
    /\ Classified => macd_status \in {Bullish, Bearish}
    /\ (Suggested /\ current_atm_iv < 35 * Scale) =>
        /\ macd_status = Bullish => suggestion = BuyCall
        /\ macd_status = Bearish => suggestion = BuyPut

\* scenario B: IV 20, Neutral, Bullish gives Buy Call
C2_Witness ==
    /\ current_atm_iv = 20 * Scale
    /\ rsi_status = Neutral
    /\ macd_status = Bullish
    /\ suggestion = BuyCall

\* C3: for every ATM implied volatility from 35 to 60, both ends included,
\* the label is Bull Call Spread iff Bullish and Oversold, Bear Put Spread
\* iff Bearish and Overbought, and No Clear Signal otherwise; no high-IV or
\* low-IV label is returned there.
C3_ModerateIvTable ==
    (Suggested /\ current_atm_iv >= 35 * Scale /\ current_atm_iv <= 60 * Scale) =>
        /\ suggestion = BullCallSpread <=> (macd_status = Bullish /\ rsi_status = Oversold)
        /\ suggestion = BearPutSpread <=> (macd_status = Bearish /\ rsi_status = Overbought)
        /\ suggestion \in {BullCallSpread, BearPutSpread, NoClearSignal}

\* the upper boundary, exactly 60, with a Bullish and Oversold reading
C3_Witness ==
    /\ current_atm_iv = 60 * Scale
    /\ macd_status = Bullish
    /\ rsi_status = Oversold
    /\ suggestion = BullCallSpread

\* C5: the classifier is total and uses strict inequalities only: close
\* equal to a band is InChannel, RSI equal to 70 or 30 is Neutral, a MACD
\* histogram of 0 is BearishCrossover; otherwise the statuses follow
\* close > upper / close < lower, rsi > 70 / rsi < 30, histogram > 0.
C5_ClassifierStrict ==
    Classified =>
        /\ band_status = AboveUpper <=> last_row.Close > last_row.BBU
        /\ band_status = BelowLower <=> last_row.Close < last_row.BBL
        /\ band_status = InChannel <=>
              (last_row.Close <= last_row.BBU /\ last_row.Close >= last_row.BBL)
        /\ rsi_status = Overbought <=> last_row.RSI_14 > 70
        /\ rsi_status = Oversold <=> last_row.RSI_14 < 30
        /\ rsi_status = Neutral <=> (last_row.RSI_14 <= 70 /\ last_row.RSI_14 >= 30)
        /\ macd_status = Bullish <=> last_row.MACDh > 0
        /\ macd_status = Bearish <=> last_row.MACDh <= 0

\* every boundary at once: close on the upper band, RSI 70, histogram 0
C5_Witness ==
    /\ Classified
    /\ last_row.Close = last_row.BBU
    /\ last_row.RSI_14 = 70
    /\ last_row.MACDh = 0
    /\ band_status = InChannel
    /\ rsi_status = Neutral
    /\ macd_status = Bearish

\* the sections of the render
TechnicalSectionShown ==
    /\ {"price-bands", "rsi", "macd"} \subseteq Rendered("plotly_chart")
    /\ {"price-vs-bands", "rsi-14", "macd-status"} \subseteq Rendered("metric")
SuggestionShown == "suggestion" \in Rendered("subheader")
ErrorShown == Rendered("error") # {}

\* C4: once the deep dive reaches the Suggestion Engine (valid price,
\* statuses computed, at least one expiry, the nearest-expiry chain
\* returned) it produces one of the nine labels, with the ATM implied
\* volatility taken as 0 when the chain has no call contracts or no
\* implied-volatility value.
C4_EngineHasNoErrorOutcome ==
    ( /\ pc \in {"greeks", "done"}
      /\ Classified
      /\ exp_dates # <<>>
      /\ "option_chain" \in Range(fetches)
      /\ e # "option_chain" ) =>
        /\ suggestion \in NineLabels
        /\ SuggestionShown
        /\ (chain.calls_empty \/ ~chain.has_iv) => current_atm_iv = 0

\* C7: a history too short for the indicator warm-up (empty, shorter than
\* 20 bars, or with no row left once the indicator NaNs are dropped) ends
\* the deep dive in the insufficient-data state: a message, no status
\* summary, no suggestion, no exception handler.
C7_ShortHistoryIsDefinedState ==
    ( /\ pc = "done"
      /\ "history" \in Range(fetches)
      /\ e # "history"
      /\ (hist_len < 20 \/ stock_data.rows = 0) ) =>
        /\ handler = ""
        /\ Rendered("error") \cap {"no-historical-data", "no-valid-data-after-cleaning",
                                   "no-indicators"} # {}
        /\ ~TechnicalSectionShown
        /\ Rendered("metric") = {}
        /\ ~Suggested

\* C8: a missing or zero current price aborts the deep dive with an error
\* message and nothing else: no history fetch, no chart, no status, no
\* suggestion, no option-chain table.
C8_InvalidPriceAborts ==
    ( /\ pc # "start"
      /\ handler # "outer"
      /\ deep_dive_ticker # ""
      /\ (current_price = <<>> \/ current_price = <<0>>) ) =>
        /\ pc = "done"
        /\ ui = Append(DeepTitles, St("error", "no-current-price"))
        /\ fetches = <<"info">>
        /\ ~Classified /\ ~Suggested
        /\ call_chain = NoFrame /\ put_chain = NoFrame

\* a price of exactly 0, reported and nothing after it
C8_Witness ==
    /\ pc = "done"
    /\ current_price = <<0>>
    /\ "no-current-price" \in Rendered("error")
    /\ fetches = <<"info">>

\* the options stage failed: no expiry, or a provider call of it raised
OptionsStageFailed ==
    /\ pc = "done"
    /\ \/ ("options" \in Range(fetches) /\ e = "" /\ exp_dates = <<>>)
       \/ e \in {"options", "option_chain", "greeks-calls", "greeks-puts"}
C9_FailureState ==
    OptionsStageFailed =>
        /\ TechnicalSectionShown
        /\ ErrorShown
        /\ e # "" => \E k \in DOMAIN ui : ui[k].w = "error" /\ ui[k].cause = e
        /\ Rendered("dataframe") = {}
        /\ \A a, b \in DOMAIN fetches : fetches[a] = fetches[b] => a = b
\* what has been rendered stays rendered
UiOnlyGrows ==
    /\ Len(ui') >= Len(ui)
    /\ SubSeq(ui', 1, Len(ui)) = ui

\* C9: a failure of the options stage (no expiry, or an exception while
\* fetching the chain or the greeks) leaves the technical section rendered,
\* shows an error message, with the cause for an exception, renders no
\* option-chain table and retries nothing.
C9_OptionsFailureConfined == [](C9_FailureState) /\ [][UiOnlyGrows]_vars

\* the greeks of the puts raise after the suggestion was shown
C9_Witness ==
    /\ OptionsStageFailed
    /\ e = "greeks-puts"
    /\ TechnicalSectionShown
    /\ SuggestionShown

\* v is x formatted to one decimal: the nearest number of tenths
IsOneDecimalOf(v, x) ==
    LET unit == Scale \div 10
        d == v * unit - x
    IN  2 * (IF d < 0 THEN -d ELSE d) <= unit

\* C10 as stated: every label comes with a rationale that contains the ATM
\* implied volatility formatted to one decimal.
C10_EveryRationaleHasIv ==
    Suggested => \E k \in DOMAIN reasoning.values :
                    IsOneDecimalOf(reasoning.values[k], current_atm_iv)

\* C10 as amended: the six labels of the high-IV and low-IV branches come
\* with a rationale that contains the ATM implied volatility formatted to
\* one decimal, the three labels of the moderate-IV branch with a fixed
\* rationale that contains no number; label and rationale depend on the ATM
\* implied volatility, the RSI status and the MACD status only, not on the
\* band status or the price.
C10_RationaleAndDependence ==
    Suggested =>
        /\ suggestion \in {SellPut, SellCall, ShortStrangle, BuyCall, BuyPut, LongStraddle} =>
              /\ Len(reasoning.values) = 1
              /\ IsOneDecimalOf(reasoning.values[1], current_atm_iv)
        /\ suggestion \in {BullCallSpread, BearPutSpread, NoClearSignal} =>
              reasoning.values = <<>>
        /\ \A b \in {AboveUpper, BelowLower, InChannel}, p \in {<<LastPrice>>, <<PrevPrice>>} :
              SuggestionLogic([Env(current_atm_iv) EXCEPT !.band_status = b,
                                                          !.current_price = p])
                  = <<suggestion, reasoning>>

\* 60.05 percent is above 60 and is shown as 60.0, price at the upper band
C10_Witness ==
    /\ Suggested
    /\ current_atm_iv = 600500
    /\ reasoning.values = <<600>>
    /\ band_status = AboveUpper
    /\ suggestion = SellCall

\* the row of the ticker scanned last, and what the provider left out for it
LastScanRow == scan_results[i]
PriceUnavailable ==
    stock.raises # "" \/ (stock.currentPrice = <<>> /\ stock.regularMarketPrice = <<>>)
IvUnavailable ==
    stock.raises # "" \/ ~stock.expiries \/ stock.calls_empty \/ stock.impliedVolatility = <<>>

\* one row per ticker scanned, in input order
RowsFollowInput ==
    /\ Len(scan_results) = i
    /\ i <= Len(ticker_list)
    /\ \A k \in 1..i : scan_results[k].Ticker = ticker_list[k]
    /\ scan_pc = "shown" => i = Len(ticker_list)

\* C6 as stated: one row per input ticker in input order, and every field
\* the provider could not supply for a ticker is reported as "N/A".
C6_UnavailableFieldsAreNA ==
    /\ RowsFollowInput
    /\ i > 0 =>
        /\ PriceUnavailable => LastScanRow.Price = NA
        /\ IvUnavailable => LastScanRow.ATM_IV = NA

\* a scanned ticker never touches the rows of the tickers before it
EarlierRowsKept ==
    /\ Len(scan_results') >= Len(scan_results)
    /\ SubSeq(scan_results', 1, Len(scan_results)) = scan_results

C6_RowsState ==
    /\ RowsFollowInput
    /\ i > 0 =>
        /\ stock.raises # "" =>
              /\ LastScanRow.Price = NA
              /\ LastScanRow.ATM_IV = NA
              /\ LastScanRow.Vol_Ratio = NA
        /\ stock.raises = "" =>
              /\ LastScanRow.Price.kind = "rupees-2f"
              /\ LastScanRow.ATM_IV.kind = "percent-1f"
              /\ (stock.currentPrice = <<>> /\ stock.regularMarketPrice = <<>>)
                    => LastScanRow.Price.v = 0
              /\ IvUnavailable => LastScanRow.ATM_IV.v = 0
              /\ LastScanRow.Vol_Ratio = NA <=>
                    (stock.averageVolume # <<>> /\ stock.averageVolume[1] <= 0)

\* C6 as amended: a provider failure for one ticker never aborts the
\* batch: the scan ends with one row per input ticker in input order, the
\* rows of earlier tickers are left as they were, and every data field of a
\* ticker whose scan raised is "N/A"; when nothing is raised, a missing
\* price is shown as 0.00 rupees and a missing ATM implied volatility as
\* 0.0%, and the volume ratio alone is "N/A", exactly when the average
\* volume is not positive.
C6_FailureDoesNotAbortBatch ==
    /\ [](C6_RowsState)
    /\ [][EarlierRowsKept]_vars
    /\ <>(scan_pc \in {"shown", "skipped"})

\* the first ticker fails, the second is scanned and priced, both are shown
C6_Witness ==
    /\ scan_pc = "shown"
    /\ Len(scan_results) = 2
    /\ scan_results[1].Price = NA
    /\ scan_results[1].ATM_IV = NA
    /\ scan_results[1].Vol_Ratio = NA
    /\ scan_results[2].Price = Rupees2f(LastPrice)
    /\ scan_results[2].ATM_IV.v = 251

====
